---- MODULE Spec2Model ----
(***************************************************************************)
(* gopro_sync.py: the orchestrator main() that polls for the camera's      *)
(* mount, and the file sync engine copy_or_move_files() that transfers     *)
(* the camera's new files into date buckets below DEST_DIR.                *)
(*                                                                         *)
(* One behaviour is a sequence of runs of the script (one per connection   *)
(* event) over the same camera storage and the same destination tree.      *)
(***************************************************************************)
EXTENDS Integers, Sequences, FiniteSets, TLC

(***************************************************************************)
(* Bounds of the model.                                                    *)
(***************************************************************************)
MaxFiles == 2
MaxDestFiles == 1
MaxRuns == 2
MaxDelay == 2
MaxRaceFiles == 1
MaxFairFiles == 1

(***************************************************************************)
(* Program constants.                                                      *)
(***************************************************************************)
TIMEOUT == 7
SLEEP == 1
EXIT_OK == 0
EXIT_FAIL == 1

DEST_DIR == "/Zdir/GoPro"

(***************************************************************************)
(* The inputs: the camera's media folders and file names, and the local    *)
(* calendar dates of the files' modification times.                        *)
(***************************************************************************)
Dirs == {"100GOPRO", "101GOPRO"}
Names == {"GX010001.MP4", "GX010002.MP4"}
MTimes == { [year |-> 2023, month |-> 7, day |-> 5],
            [year |-> 2024, month |-> 1, day |-> 3] }

SrcPaths == Dirs \X Names

Basename(p) == p[2]
Dirname(p) == p[1]

(***************************************************************************)
(* strftime("%m-%d-%Y"): the bucket name as its sequence of characters.    *)
(***************************************************************************)
Digit(n) == <<"0", "1", "2", "3", "4", "5", "6", "7", "8", "9">>[n + 1]

Pad2(n) == <<Digit((n \div 10) % 10), Digit(n % 10)>>

Pad4(n) == <<Digit((n \div 1000) % 10), Digit((n \div 100) % 10),
             Digit((n \div 10) % 10), Digit(n % 10)>>

StrfDateDayFirst(t) == Pad2(t.day) \o <<"-">> \o Pad2(t.month) \o <<"-">> \o Pad4(t.year)

Strftime(t) == Pad2(t.month) \o <<"-">> \o Pad2(t.day) \o <<"-">> \o Pad4(t.year)

(* The bucket names of the dates of the model, formatted once.             *)
BucketNames == [t \in MTimes |-> Strftime(t)]

StrfDate(t) == BucketNames[t]

(* os.path.join(os.path.join(DEST_DIR, bucket), basename), as the pair     *)
(* <<bucket, basename>> below DEST_DIR.                                    *)
DestPathNoBucket(p, t) == <<<<>>, Basename(p)>>

DestPath(p, t) == <<StrfDate(t), Basename(p)>>

BucketOf(dp) == dp[1]

(* The content of a file: the source path it was first read from, or the   *)
(* tag "old" for a file the destination held before the first run.         *)
OldContent(n) == <<"old", n>>

SizeOf(c) == CASE c[1] = "old" -> 1
               [] c[1] = "100GOPRO" -> 2
               [] OTHER -> 3

Min(a, b) == IF a < b THEN a ELSE b

Remove(f, k) == [x \in DOMAIN f \ {k} |-> f[x]]

Put(f, k, v) == [x \in DOMAIN f \cup {k} |-> IF x = k THEN v ELSE f[x]]

VARIABLES
    args,                  \* the parsed command line: [move, no_notify]
    src,                   \* the files below the sync source: path -> [mtime, data]
    dest,                  \* the files below DEST_DIR: <<bucket, name>> -> data
    destRootExists,        \* DEST_DIR exists
    destDirs,              \* the bucket directories that exist below DEST_DIR
    pc,                    \* the position of the running script
    clock,                 \* time.time() since the start of the run, while main polls
    timeout,               \* main's local timeout
    gopro_mount,           \* main's local gopro_mount
    files_to_process,      \* copy_or_move_files' list of candidates
    i,                     \* index of the next candidate (1-based)
    processed_new_files,
    total_new_files,
    total_size_processed,
    outcome,               \* the tuple copy_or_move_files returned, or <<>>
    notifications,         \* the calls of send_desktop_notification of this run
    sound,                 \* what play_success_sound did in this run
    exits,                 \* the exit codes of this run
    run,                   \* history: index of the run
    endedVia,              \* history: the path through which this run ended
    syncCalls,             \* history: invocations of copy_or_move_files in this run
    log,                   \* history: the result of each attempt of the pass
    written,               \* history: source paths whose content the pass wrote
    srcAtStart,            \* history: src when the last pass began
    destAtStart,           \* history: dest when the last pass began
    rootFailed,            \* history: the pass could not create DEST_DIR
    prevPass,              \* history: outcome of the pass before the last one
    lastPass,              \* history: outcome of the last pass that returned
    enumFailed,            \* history: the walk of the pass raised
    attempts,              \* history: the candidates the pass attempted, in order
    probeFault,            \* history: how a probe failed in the last iteration
                           \*   of the loop that found no mount
    mountState,            \* history: what main found at the path of the mount
    second                 \* a second invocation of copy_or_move_files

vars == <<args, src, dest, destRootExists, destDirs, pc, clock, timeout, gopro_mount,
          files_to_process, i, processed_new_files, total_new_files,
          total_size_processed, outcome, notifications, sound, exits, run,
          endedVia, syncCalls, log, written, srcAtStart, destAtStart,
          rootFailed, prevPass, lastPass, enumFailed, attempts, probeFault,
          mountState, second>>

fsVars == <<src, dest, destRootExists, destDirs>>
syncLocals == <<files_to_process, i, processed_new_files, total_new_files,
                total_size_processed>>
passHistory == <<log, written, srcAtStart, destAtStart, rootFailed, prevPass,
                 lastPass, enumFailed, attempts>>
pollHistory == <<probeFault, mountState>>
mainLocals == <<timeout, gopro_mount>>
outputs == <<notifications, sound, exits>>

NoPass == "none"

(* The second invocation while there is none.                              *)
Idle == [pc |-> "idle", move |-> FALSE, files |-> <<>>, i |-> 1,
         processed |-> 0, total |-> 0, outcome |-> <<>>]

ArgSets == [move : BOOLEAN, no_notify : BOOLEAN]

ClockCap == TIMEOUT + MaxDelay

AdvanceStalled(d) == clock

Advance(d) == Min(clock + d, ClockCap)

(***************************************************************************)
(* The initial state: the script has parsed its arguments; the camera      *)
(* holds up to MaxFiles files, the destination up to MaxDestFiles files    *)
(* left by earlier syncs, each inside an existing bucket.                  *)
(***************************************************************************)
SourceTrees ==
    UNION { [S -> MTimes] :
            S \in {T \in SUBSET SrcPaths : Cardinality(T) <= MaxFiles} }

InitialSource(tree) == [p \in DOMAIN tree |-> [mtime |-> tree[p], data |-> p]]

DestUniverse == {<<StrfDate(t), n>> : t \in MTimes, n \in Names}

Init ==
    /\ args \in ArgSets
    /\ \E tree \in SourceTrees : src = InitialSource(tree)
    /\ \E D \in SUBSET DestUniverse :
          /\ Cardinality(D) <= MaxDestFiles
          /\ dest = [dp \in D |-> OldContent(dp[2])]
          /\ destDirs = {BucketOf(dp) : dp \in D}
          /\ destRootExists \in (IF D = {} THEN BOOLEAN ELSE {TRUE})
    /\ pc = "start"
    /\ clock = 0
    /\ timeout = 0
    /\ gopro_mount = "None"
    /\ files_to_process = <<>>
    /\ i = 1
    /\ processed_new_files = 0
    /\ total_new_files = 0
    /\ total_size_processed = 0
    /\ outcome = <<>>
    /\ notifications = <<>>
    /\ sound = "none"
    /\ exits = <<>>
    /\ run = 1
    /\ endedVia = "running"
    /\ syncCalls = 0
    /\ log = <<>>
    /\ written = {}
    /\ srcAtStart = src
    /\ destAtStart = dest
    /\ rootFailed = FALSE
    /\ prevPass = NoPass
    /\ lastPass = NoPass
    /\ enumFailed = FALSE
    /\ attempts = <<>>
    /\ probeFault = "none"
    /\ mountState = "unknown"
    /\ second = Idle

(***************************************************************************)
(* Helpers of main: a call of send_desktop_notification (skipped under     *)
(* --no-notify) and sys.exit.                                              *)
(***************************************************************************)
NotifyAlways(summary, body, shown) ==
    Append(notifications, [summary |-> summary, body |-> body, shown |-> shown])

(* body is the message's kind: "progress" (the counts of the pass),         *)
(* "transfer_error", "listing_error" or "inaccessible".  shown is whether  *)
(* the notifier displayed it: send_desktop_notification returns True, or   *)
(* logs the notifier's exception and returns False.                        *)
Notify(summary, body, shown) ==
    IF args.no_notify
    THEN notifications
    ELSE Append(notifications, [summary |-> summary, body |-> body, shown |-> shown])

(* send_desktop_notification (lines 158-178) and play_success_sound        *)
(* (lines 182-205) keep their failures to themselves: an exception of the  *)
(* notifier or of a player is logged inside, none reaches the caller.      *)
SendDesktopNotificationRaisesOnFailure(shown) == ~shown

SendDesktopNotificationRaises(shown) == FALSE

PlaySuccessSoundRaises(played) == FALSE

SysExitFallsThrough(code, via) ==
    /\ exits' = Append(exits, code)
    /\ endedVia' = via
    /\ pc' = "loop"

SysExit(code, via) ==
    /\ exits' = Append(exits, code)
    /\ endedVia' = via
    /\ pc' = "done"

(* The try around the listing and the transfer (lines 363-417) catches     *)
(* Exception; the SystemExit that sys.exit raises is no Exception.         *)
HandlerCatchesAll(exc) == TRUE

HandlerCatches(exc) == exc = "Exception"

(***************************************************************************)
(* The probes of the mount locator.  An outcome is what the external       *)
(* command (lsusb, gio mount -l) or the inspection of the GVFS directory   *)
(* did in one call: for find_gopro_gvfs_mount, a mount, none, or an        *)
(* exception of exists() / iterdir(), which it does not catch.             *)
(***************************************************************************)
LsusbOutcomes == {"raise", "nomatch", "match"}
GvfsOutcomes == {"mount", "none", "raise"}
GioOutcomes == {"raise", "nomatch", "match_path", "match_nopath"}

(* check_mtp_connection: an error of lsusb is caught and reads as False.   *)
CheckMtpConnectionResult(lsusb) == lsusb = "match"

(* find_gopro_mount_point: find_gopro_gvfs_mount, nothing caught.          *)
FindGoproMountPointResult(g) == g

(* is_gopro_connected: lsusb is run outside any try; on a matching line    *)
(* it asks find_gopro_gvfs_mount, then find_gopro_mount_point.             *)
IsGoproConnectedResult(lsusb, g1, g2) ==
    CASE lsusb = "raise" -> "raise"
      [] lsusb = "nomatch" -> "none"
      [] OTHER -> IF g1 = "none" THEN FindGoproMountPointResult(g2) ELSE g1

(* try_access_gopro_mtp: everything inside try/except Exception.           *)
TryAccessGoproMtpResult(gio, g) ==
    CASE gio = "raise" -> "none"
      [] gio = "nomatch" -> "none"
      [] gio = "match_path" -> "mount"
      [] OTHER -> IF g = "mount" THEN "mount" ELSE "none"

(* The probes' outcomes of one iteration of the loop.                      *)
ProbeOutcomes ==
    [check : LsusbOutcomes, lsusb : LsusbOutcomes, g1 : GvfsOutcomes,
     g2 : GvfsOutcomes, g3 : GvfsOutcomes, gio : GioOutcomes, g4 : GvfsOutcomes]

(* Lines 328-343: what one iteration finds: "absent" (no camera on the     *)
(* bus), "none" (camera, no mount), "mount", or "raise" (an exception      *)
(* leaves the probes uncaught).                                            *)
MountLocator(o) ==
    IF ~CheckMtpConnectionResult(o.check) THEN "absent"
    ELSE LET r1 == IsGoproConnectedResult(o.lsusb, o.g1, o.g2) IN
         IF r1 # "none" THEN r1
         ELSE LET r2 == FindGoproMountPointResult(o.g3) IN
              IF r2 # "none" THEN r2
              ELSE TryAccessGoproMtpResult(o.gio, o.g4)

(* Whether try_access_gopro_mtp is reached in the iteration.               *)
ReachesGio(o) ==
    /\ CheckMtpConnectionResult(o.check)
    /\ IsGoproConnectedResult(o.lsusb, o.g1, o.g2) = "none"
    /\ FindGoproMountPointResult(o.g3) = "none"

(* How a probe of the iteration failed: "uncaught" (the exception leaves   *)
(* the probe), "caught" (check_mtp_connection, line 281, or                *)
(* try_access_gopro_mtp, line 314, logged it and answered not found), or   *)
(* "none".                                                                 *)
ProbeFaultOf(o) ==
    CASE MountLocator(o) = "raise" -> "uncaught"
      [] o.check = "raise" -> "caught"
      [] ReachesGio(o) /\ o.gio = "raise" -> "caught"
      [] ReachesGio(o) /\ o.gio = "match_nopath" /\ o.g4 = "raise" -> "caught"
      [] OTHER -> "none"

LocatorResults == {<<MountLocator(o), ProbeFaultOf(o)>> : o \in ProbeOutcomes}

(***************************************************************************)
(* main                                                                    *)
(***************************************************************************)
MainStart ==
    /\ pc = "start"
    /\ timeout' = clock + TIMEOUT
    /\ pc' = "loop"
    /\ UNCHANGED <<second, pollHistory, args, fsVars, clock, gopro_mount, syncLocals, outcome,
                   outputs, run, endedVia, syncCalls, passHistory>>

(* The loop test fails: "Timeout reached", sys.exit(0).                    *)
TimeoutExit ==
    /\ pc = "loop"
    /\ ~(clock < timeout)
    /\ SysExit(EXIT_OK, "timeout")
    /\ UNCHANGED <<second, pollHistory, args, fsVars, clock, mainLocals, syncLocals, outcome,
                   notifications, sound, run, syncCalls, passHistory>>

(* How a probe can have failed in an iteration that found no mount and     *)
(* went on to sleep.                                                       *)
MissFaults == {r[2] : r \in {q \in LocatorResults : q[1] \in {"absent", "none"}}}

(* An iteration without a mount: time.sleep(1) and back to the loop test;  *)
(* the probes of the iteration take up to MaxDelay - SLEEP more.           *)
PollNotFound ==
    /\ pc = "loop"
    /\ clock < timeout
    /\ probeFault' \in MissFaults
    /\ \E d \in SLEEP..MaxDelay : clock' = Advance(d)
    /\ UNCHANGED <<second, mountState, args, fsVars, pc, mainLocals, syncLocals, outcome, outputs,
                   run, endedVia, syncCalls, passHistory>>

(* An exception of a probe that nothing catches ends the process with a    *)
(* traceback and exit status 1.                                            *)
PollCrash ==
    /\ pc = "loop"
    /\ clock < timeout
    /\ \E r \in LocatorResults :
          /\ r[1] = "raise"
          /\ probeFault' = r[2]
    /\ SysExit(EXIT_FAIL, "crash")
    /\ UNCHANGED <<second, mountState, args, fsVars, clock, mainLocals, syncLocals, outcome,
                   notifications, sound, run, syncCalls, passHistory>>

(* An iteration with a mount (line 345).  Every path from here ends in     *)
(* sys.exit without reading the time again; from here the clock is         *)
(* followed only as far as whether the budget of the loop has elapsed:     *)
(* 0 while it has not.                                                     *)
PollFound ==
    /\ pc = "loop"
    /\ clock < timeout
    /\ \E r \in LocatorResults :
          /\ r[1] = "mount"
          /\ probeFault' = r[2]
    /\ gopro_mount' = "mount"
    /\ pc' = "validate"
    /\ clock' = 0
    /\ UNCHANGED <<second, mountState, args, fsVars, timeout, syncLocals, outcome, outputs, run,
                   endedVia, syncCalls, passHistory>>

(* os.path.exists(gopro_mount) and os.access(gopro_mount, os.R_OK).        *)
MountStates == {"ok", "missing", "unreadable"}

MountAccessibleIfExists(m) == m # "missing"

MountAccessible(m) == m = "ok"

ValidateMount ==
    /\ pc = "validate"
    /\ \E m \in MountStates :
          /\ mountState' = m
          /\ IF MountAccessible(m)
             THEN /\ pc' = "list"
                  /\ UNCHANGED <<notifications, exits, endedVia>>
             ELSE /\ \E shown \in BOOLEAN :
                        notifications' = Notify("Status: Failed", "inaccessible", shown)
                  /\ SysExit(EXIT_FAIL, "inaccessible")
    /\ UNCHANGED <<second, probeFault, args, fsVars, clock, mainLocals, syncLocals,
                   outcome, sound, run, syncCalls, passHistory>>

(* os.listdir(gopro_mount) raised: the handler of line 407.                *)
ListContentsError ==
    /\ pc = "list"
    /\ \E shown \in BOOLEAN :
          notifications' = Notify("Status: Failed", "listing_error", shown)
    /\ SysExit(EXIT_FAIL, "listing")
    /\ UNCHANGED <<second, pollHistory, args, fsVars, clock, mainLocals, syncLocals, outcome, sound,
                   run, syncCalls, passHistory>>

(***************************************************************************)
(* copy_or_move_files                                                      *)
(***************************************************************************)
FailedOutcomeAsSuccess == <<TRUE, 0, 0, 0>>

FailedOutcome == <<FALSE, 0, 0, 0>>

(* How a pass ended: "failed" (not success), "complete" (every candidate   *)
(* transferred) or "partial".                                              *)
PassRecord(o) ==
    CASE ~o[1] -> "failed"
      [] o[2] = o[3] -> "complete"
      [] OTHER -> "partial"

(* The listing succeeds; whether or not it holds DCIM, main calls          *)
(* copy_or_move_files(source_to_process): src is the tree below it.        *)
ListContents ==
    /\ pc = "list"
    /\ pc' = "copy_or_move_files"
    /\ syncCalls' = syncCalls + 1
    /\ files_to_process' = <<>>
    /\ i' = 1
    /\ processed_new_files' = 0
    /\ total_new_files' = 0
    /\ total_size_processed' = 0
    /\ log' = <<>>
    /\ written' = {}
    /\ srcAtStart' = src
    /\ destAtStart' = dest
    /\ rootFailed' = FALSE
    /\ enumFailed' = FALSE
    /\ attempts' = <<>>
    /\ prevPass' = lastPass
    /\ UNCHANGED <<second, pollHistory, args, fsVars, clock, mainLocals, outcome,
                   outputs, run, endedVia, lastPass>>

(* A source file is a candidate iff nothing exists at its destination path *)
(* (line 223).                                                             *)
IsCandidateNoBucket(p) == DestPathNoBucket(p, src[p].mtime) \notin DOMAIN dest

IsCandidateInverted(p) == DestPath(p, src[p].mtime) \in DOMAIN dest

IsCandidate(p) == DestPath(p, src[p].mtime) \notin DOMAIN dest

(* The orders in which os.walk can list the files: any order of the        *)
(* directories and of the files in one directory, a directory at a time.   *)
WalkOrders(S) ==
    { o \in [1..Cardinality(S) -> S] :
        /\ \A a, b \in DOMAIN o : a # b => o[a] # o[b]
        /\ \A a, b, c \in DOMAIN o :
              (a < b /\ b < c /\ Dirname(o[a]) = Dirname(o[c]))
                 => Dirname(o[b]) = Dirname(o[a]) }

(* The time a pass takes.  Nothing in copy_or_move_files, and nothing in   *)
(* main after it, reads the time, so a pass is followed in the one case    *)
(* that could matter: it lasts longer than the whole budget of the loop.   *)
PassDurations == {TIMEOUT}

(* The outer handler (line 266): return False, 0, 0, 0.                    *)
ReturnFailed ==
    /\ outcome' = FailedOutcome
    /\ lastPass' = PassRecord(FailedOutcome)
    /\ \E d \in PassDurations : clock' = Advance(d)
    /\ pc' = "report"

(* os.makedirs(DEST_DIR, exist_ok=True) raises: DEST_DIR cannot be made.   *)
DestRootFail ==
    /\ pc = "copy_or_move_files"
    /\ ~destRootExists
    /\ rootFailed' = TRUE
    /\ ReturnFailed
    /\ UNCHANGED <<second, pollHistory, args, fsVars, mainLocals, syncLocals,
                   outputs, run, endedVia, syncCalls, log, written, srcAtStart,
                   destAtStart, prevPass, enumFailed, attempts>>

(* os.path.getmtime raises during the walk (lines 215-224).                *)
EnumerateFail ==
    /\ pc = "copy_or_move_files"
    /\ DOMAIN src # {}
    /\ destRootExists' = TRUE
    /\ enumFailed' = TRUE
    /\ ReturnFailed
    /\ UNCHANGED <<second, pollHistory, args, src, dest, destDirs, mainLocals,
                   syncLocals, outputs, run, endedVia, syncCalls, log, written,
                   srcAtStart, destAtStart, rootFailed, prevPass, attempts>>

(* Lines 212-232: DEST_DIR exists or is made, the walk collects the        *)
(* candidates in its order.                                                *)
Enumerate ==
    /\ pc = "copy_or_move_files"
    /\ destRootExists' = TRUE
    /\ \E o \in WalkOrders(DOMAIN src) :
          files_to_process' = SelectSeq(o, IsCandidate)
    /\ total_new_files' = Len(files_to_process')
    /\ processed_new_files' = 0
    /\ total_size_processed' = 0
    /\ i' = 1
    /\ pc' = "transfer"
    /\ UNCHANGED <<second, pollHistory, args, src, dest, destDirs, clock,
                   mainLocals, outcome, outputs, run, endedVia, syncCalls,
                   passHistory>>

(* The candidate of this iteration, its bucket and destination path        *)
(* (lines 236-241).                                                        *)
Cur == files_to_process[i]
CurBucket == StrfDate(src[Cur].mtime)
CurDest == DestPath(Cur, src[Cur].mtime)

InLoop == pc = "transfer" /\ i <= Len(files_to_process)

(* The candidate is still in the source when its turn comes.               *)
CurPresent == Cur \in DOMAIN src

(* The per-file handler (line 260) logs the error; the for loop goes on    *)
(* with the next candidate.                                                *)
AfterFailureBreak(k) == Len(files_to_process) + 1

AfterFailureRetry(k) == k

AfterFailure(k) == k + 1

FailKinds == {"makedirs", "transfer", "after_write"}

(* What an attempt that raises leaves behind:                              *)
(*   makedirs     os.makedirs(dest_subdir) raised: no bucket               *)
(*   transfer     copy2 / move raised before the destination was written   *)
(*   after_write  copy2 raised in copystat after the content was written   *)
(* os.path.getmtime(src_path) raising (line 236) leaves what makedirs      *)
(* raising leaves, or, when the bucket exists, what transfer leaves.       *)
TransferFail ==
    /\ InLoop
    /\ CurPresent
    /\ \E kind \in FailKinds :
          /\ kind = "makedirs" => CurBucket \notin destDirs
          /\ destDirs' = IF kind \in {"transfer", "after_write"}
                         THEN destDirs \cup {CurBucket} ELSE destDirs
          /\ dest' = IF kind = "after_write"
                     THEN Put(dest, CurDest, src[Cur].data) ELSE dest
          /\ written' = IF kind = "after_write" THEN written \cup {Cur} ELSE written
          /\ log' = Append(log, kind)
    /\ attempts' = Append(attempts, Cur)
    /\ i' = AfterFailure(i)
    /\ UNCHANGED <<second, pollHistory, args, src, destRootExists, pc, clock,
                   mainLocals, files_to_process, processed_new_files,
                   total_new_files, total_size_processed, outcome, outputs, run,
                   endedVia, syncCalls, srcAtStart, destAtStart, rootFailed,
                   prevPass, lastPass, enumFailed>>

(* The candidate has left the source since the walk (another invocation    *)
(* moved it): os.path.getmtime (line 236) raises, the handler logs.        *)
SourceGone ==
    /\ InLoop
    /\ ~CurPresent
    /\ log' = Append(log, "gone")
    /\ attempts' = Append(attempts, Cur)
    /\ i' = AfterFailure(i)
    /\ UNCHANGED <<second, pollHistory, args, fsVars, pc, clock, mainLocals,
                   files_to_process, processed_new_files, total_new_files,
                   total_size_processed, outcome, outputs, run, endedVia,
                   syncCalls, written, srcAtStart, destAtStart, rootFailed,
                   prevPass, lastPass, enumFailed>>

(* Lines 252-254 after a transfer that did not raise.                      *)
Account(dp) ==
    /\ total_size_processed' = total_size_processed + SizeOf(dest'[dp])
    /\ processed_new_files' = processed_new_files + 1
    /\ log' = Append(log, "ok")
    /\ i' = i + 1

(* os.rename within one filesystem: the file changes place in one step.    *)
RenameEffect(p, dp) ==
    /\ dest' = Put(dest, dp, src[p].data)
    /\ src' = Remove(src, p)

CopyEffectRemovesSource(p, dp) ==
    /\ dest' = Put(dest, dp, src[p].data)
    /\ src' = Remove(src, p)

(* shutil.copy2(src_path, dest_path): the destination is written (an       *)
(* existing file is overwritten), the source is only read.                 *)
CopyEffect(p, dp) ==
    /\ dest' = Put(dest, dp, src[p].data)
    /\ src' = src

CopyFile ==
    /\ InLoop
    /\ CurPresent
    /\ ~args.move
    /\ destDirs' = destDirs \cup {CurBucket}
    /\ CopyEffect(Cur, CurDest)
    /\ written' = written \cup {Cur}
    /\ attempts' = Append(attempts, Cur)
    /\ Account(CurDest)
    /\ UNCHANGED <<second, pollHistory, args, destRootExists, pc, clock,
                   mainLocals, files_to_process, total_new_files, outcome,
                   outputs, run, endedVia, syncCalls, srcAtStart, destAtStart,
                   rootFailed, prevPass, lastPass, enumFailed>>

(* shutil.move when os.rename succeeds.                                    *)
MoveRename ==
    /\ InLoop
    /\ CurPresent
    /\ args.move
    /\ destDirs' = destDirs \cup {CurBucket}
    /\ RenameEffect(Cur, CurDest)
    /\ written' = written \cup {Cur}
    /\ attempts' = Append(attempts, Cur)
    /\ Account(CurDest)
    /\ UNCHANGED <<second, pollHistory, args, destRootExists, pc, clock,
                   mainLocals, files_to_process, total_new_files, outcome,
                   outputs, run, endedVia, syncCalls, srcAtStart, destAtStart,
                   rootFailed, prevPass, lastPass, enumFailed>>

(* shutil.move across filesystems: copy2 to the destination, then          *)
(* os.unlink of the source.                                                *)
UnlinkFirstEffect(p, dp) ==
    /\ dest' = dest
    /\ src' = Remove(src, p)

MoveCopyEffect(p, dp) == CopyEffect(p, dp)

MoveCopy ==
    /\ InLoop
    /\ CurPresent
    /\ args.move
    /\ destDirs' = destDirs \cup {CurBucket}
    /\ MoveCopyEffect(Cur, CurDest)
    /\ written' = written \cup {Cur}
    /\ attempts' = Append(attempts, Cur)
    /\ pc' = "unlink"
    /\ UNCHANGED <<second, pollHistory, args, destRootExists, clock, mainLocals,
                   syncLocals, outcome, outputs, run, endedVia, syncCalls, log,
                   srcAtStart, destAtStart, rootFailed, prevPass, lastPass,
                   enumFailed>>

MoveUnlink ==
    /\ pc = "unlink"
    /\ CurPresent
    /\ src' = Remove(src, Cur)
    /\ total_size_processed' = total_size_processed + SizeOf(dest[CurDest])
    /\ processed_new_files' = processed_new_files + 1
    /\ log' = Append(log, "ok")
    /\ i' = i + 1
    /\ pc' = "transfer"
    /\ UNCHANGED <<second, pollHistory, args, dest, destRootExists, destDirs,
                   clock, mainLocals, files_to_process, total_new_files, outcome,
                   outputs, run, endedVia, syncCalls, written, srcAtStart,
                   destAtStart, rootFailed, prevPass, lastPass, enumFailed,
                   attempts>>

(* os.unlink raised: the copy stays, the source stays, the handler logs.   *)
MoveUnlinkFail ==
    /\ pc = "unlink"
    /\ log' = Append(log, "unlink")
    /\ i' = AfterFailure(i)
    /\ pc' = "transfer"
    /\ UNCHANGED <<second, pollHistory, args, fsVars, clock, mainLocals,
                   files_to_process, processed_new_files, total_new_files,
                   total_size_processed, outcome, outputs, run, endedVia,
                   syncCalls, written, srcAtStart, destAtStart, rootFailed,
                   prevPass, lastPass, enumFailed, attempts>>

(* Line 265: once the loop is over the flag is True, whatever happened     *)
(* to the candidates.                                                      *)
SuccessFlagAllProcessed(processed, total) == processed = total

SuccessFlag(processed, total) == TRUE

SyncReturn ==
    /\ pc = "transfer"
    /\ i > Len(files_to_process)
    /\ outcome' = <<SuccessFlag(processed_new_files, total_new_files),
                    processed_new_files, total_new_files, total_size_processed>>
    /\ lastPass' = PassRecord(outcome')
    /\ \E d \in PassDurations : clock' = Advance(d)
    /\ pc' = "report"
    /\ UNCHANGED <<second, pollHistory, args, fsVars, mainLocals, syncLocals,
                   outputs, run, endedVia, syncCalls, log, written, srcAtStart,
                   destAtStart, rootFailed, prevPass, enumFailed, attempts>>

(***************************************************************************)
(* main, after copy_or_move_files returned (lines 379-405).  sys.exit      *)
(* raises SystemExit inside the try of line 363.                           *)
(***************************************************************************)
(* The handler of line 407, entered from inside the try: its own           *)
(* notification, then sys.exit(1).                                         *)
HandlerExit(notes) ==
    /\ \E shown \in BOOLEAN :
          notifications' =
             IF args.no_notify THEN notes
             ELSE Append(notes, [summary |-> "Status: Failed",
                                 body |-> "listing_error", shown |-> shown])
    /\ SysExit(EXIT_FAIL, "listing")

ExitInsideTry(code, via, notes) ==
    IF HandlerCatches("SystemExit")
    THEN HandlerExit(notes)
    ELSE /\ notifications' = notes
         /\ SysExit(code, via)

(* Lines 379-394: play_success_sound(), the notification, sys.exit(0).     *)
ReportSuccess ==
    /\ pc = "report"
    /\ outcome[1]
    /\ \E played \in BOOLEAN, shown \in BOOLEAN :
          /\ sound' = IF played THEN "played" ELSE "failed"
          /\ IF PlaySuccessSoundRaises(played)
             THEN HandlerExit(notifications)
             ELSE IF ~args.no_notify /\ SendDesktopNotificationRaises(shown)
             THEN HandlerExit(notifications)
             ELSE ExitInsideTry(EXIT_OK, "success",
                                Notify("Status: Successful", "progress", shown))
    /\ UNCHANGED <<second, pollHistory, args, fsVars, clock, mainLocals, syncLocals, outcome, run,
                   syncCalls, passHistory>>

(* Lines 395-405: the failure notification, sys.exit(1).                   *)
ReportFailure ==
    /\ pc = "report"
    /\ ~outcome[1]
    /\ \E shown \in BOOLEAN :
          IF ~args.no_notify /\ SendDesktopNotificationRaises(shown)
          THEN HandlerExit(notifications)
          ELSE ExitInsideTry(EXIT_FAIL, "sync_failed",
                             Notify("Status: Failed", "transfer_error", shown))
    /\ UNCHANGED <<second, pollHistory, args, fsVars, clock, mainLocals, syncLocals, outcome, sound,
                   run, syncCalls, passHistory>>

(***************************************************************************)
(* The next connection event starts the script again, with its own         *)
(* command line, over the camera and the destination as they are.  It is   *)
(* followed after a run whose pass transferred every one of its            *)
(* candidates.                                                             *)
(***************************************************************************)
Trigger ==
    /\ pc = "done"
    /\ run < MaxRuns
    /\ outcome # <<>>
    /\ lastPass = "complete"
    /\ run' = run + 1
    /\ args' \in ArgSets
    /\ pc' = "start"
    /\ clock' = 0
    /\ timeout' = 0
    /\ gopro_mount' = "None"
    /\ outcome' = <<>>
    /\ notifications' = <<>>
    /\ sound' = "none"
    /\ exits' = <<>>
    /\ endedVia' = "running"
    /\ syncCalls' = 0
    /\ files_to_process' = <<>>
    /\ i' = 1
    /\ processed_new_files' = 0
    /\ total_new_files' = 0
    /\ total_size_processed' = 0
    /\ log' = <<>>
    /\ written' = {}
    /\ srcAtStart' = src
    /\ destAtStart' = dest
    /\ rootFailed' = FALSE
    /\ prevPass' = NoPass
    /\ enumFailed' = FALSE
    /\ attempts' = <<>>
    /\ probeFault' = "none"
    /\ mountState' = "unknown"
    /\ UNCHANGED <<fsVars, lastPass, second>>

Next ==
    \/ MainStart
    \/ TimeoutExit
    \/ PollNotFound
    \/ PollCrash
    \/ PollFound
    \/ ValidateMount
    \/ ListContentsError
    \/ ListContents
    \/ DestRootFail
    \/ EnumerateFail
    \/ Enumerate
    \/ TransferFail
    \/ CopyFile
    \/ MoveRename
    \/ MoveCopy
    \/ MoveUnlink
    \/ MoveUnlinkFail
    \/ SyncReturn
    \/ ReportSuccess
    \/ ReportFailure
    \/ Trigger

Spec == Init /\ [][Next]_vars

(* The script keeps running: a step it can take is taken.  What the probes *)
(* and the file operations answer stays the environment's choice.  The     *)
(* camera holds up to MaxFairFiles files.                                  *)
FairInit == Init /\ Cardinality(DOMAIN src) <= MaxFairFiles

FairSpec == FairInit /\ [][Next]_vars /\ WF_vars(Next)

(***************************************************************************)
(* Two invocations of copy_or_move_files at once: two runs of the script,  *)
(* started by two connection events, have both found the mount and reach   *)
(* the call of line 378 over the same camera and the same destination.     *)
(* The first is followed by the actions above; the second runs the same    *)
(* code on its own locals, kept in the record second, and is followed a    *)
(* whole transfer at a time.  The time plays no part: the clock stands at  *)
(* its cap.  The camera holds up to MaxRaceFiles files.                    *)
(***************************************************************************)
invocationVars == <<args, pc, clock, timeout, gopro_mount, syncLocals, outcome,
                    outputs, run, endedVia, syncCalls, passHistory, pollHistory>>

RaceTrees == {tree \in SourceTrees : Cardinality(DOMAIN tree) <= MaxRaceFiles}

RaceInit ==
    /\ args \in [move : BOOLEAN, no_notify : {FALSE}]
    /\ \E tree \in RaceTrees : src = InitialSource(tree)
    /\ \E D \in SUBSET DestUniverse :
          /\ Cardinality(D) <= MaxDestFiles
          /\ dest = [dp \in D |-> OldContent(dp[2])]
          /\ destDirs = {BucketOf(dp) : dp \in D}
          /\ destRootExists \in (IF D = {} THEN BOOLEAN ELSE {TRUE})
    /\ pc = "copy_or_move_files"
    /\ clock = ClockCap
    /\ timeout = TIMEOUT
    /\ gopro_mount = "mount"
    /\ files_to_process = <<>>
    /\ i = 1
    /\ processed_new_files = 0
    /\ total_new_files = 0
    /\ total_size_processed = 0
    /\ outcome = <<>>
    /\ notifications = <<>>
    /\ sound = "none"
    /\ exits = <<>>
    /\ run = 1
    /\ endedVia = "running"
    /\ syncCalls = 1
    /\ log = <<>>
    /\ written = {}
    /\ srcAtStart = src
    /\ destAtStart = dest
    /\ rootFailed = FALSE
    /\ prevPass = NoPass
    /\ lastPass = NoPass
    /\ enumFailed = FALSE
    /\ attempts = <<>>
    /\ probeFault = "none"
    /\ mountState = "ok"
    /\ \E mv \in BOOLEAN :
          second = [Idle EXCEPT !.pc = "copy_or_move_files", !.move = mv]

(* Lines 266-268 in the second invocation: DEST_DIR cannot be made, or the *)
(* walk raised.                                                            *)
SecondEarlyFail ==
    /\ second.pc = "copy_or_move_files"
    /\ ~destRootExists \/ DOMAIN src # {}
    /\ second' = [second EXCEPT !.pc = "returned", !.outcome = FailedOutcome]
    /\ UNCHANGED <<fsVars, invocationVars>>

(* Lines 212-232 in the second invocation.                                 *)
SecondEnumerate ==
    /\ second.pc = "copy_or_move_files"
    /\ destRootExists' = TRUE
    /\ \E o \in WalkOrders(DOMAIN src) :
          second' = [second EXCEPT !.files = SelectSeq(o, IsCandidate),
                                   !.total = Len(SelectSeq(o, IsCandidate)),
                                   !.processed = 0,
                                   !.i = 1,
                                   !.pc = "transfer"]
    /\ UNCHANGED <<src, dest, destDirs, invocationVars>>

SecondCur == second.files[second.i]
SecondDest == DestPath(SecondCur, src[SecondCur].mtime)

SecondInLoop == second.pc = "transfer" /\ second.i <= Len(second.files)

(* An attempt of the second invocation raises before it wrote (always so   *)
(* when the candidate has left the source); line 260 logs.                 *)
SecondFail ==
    /\ SecondInLoop
    /\ second' = [second EXCEPT !.i = AfterFailure(second.i)]
    /\ UNCHANGED <<fsVars, invocationVars>>

(* Lines 236-254 in the second invocation, copy mode.                      *)
SecondCopy ==
    /\ SecondInLoop
    /\ SecondCur \in DOMAIN src
    /\ ~second.move
    /\ destDirs' = destDirs \cup {BucketOf(SecondDest)}
    /\ CopyEffect(SecondCur, SecondDest)
    /\ second' = [second EXCEPT !.processed = second.processed + 1,
                                !.i = second.i + 1]
    /\ UNCHANGED <<destRootExists, invocationVars>>

(* Lines 236-254 in the second invocation, move mode (os.rename).          *)
SecondMove ==
    /\ SecondInLoop
    /\ SecondCur \in DOMAIN src
    /\ second.move
    /\ destDirs' = destDirs \cup {BucketOf(SecondDest)}
    /\ RenameEffect(SecondCur, SecondDest)
    /\ second' = [second EXCEPT !.processed = second.processed + 1,
                                !.i = second.i + 1]
    /\ UNCHANGED <<destRootExists, invocationVars>>

(* Line 265 in the second invocation.                                      *)
SecondReturn ==
    /\ second.pc = "transfer"
    /\ second.i > Len(second.files)
    /\ second' = [second EXCEPT
                     !.pc = "returned",
                     !.outcome = <<SuccessFlag(second.processed, second.total),
                                   second.processed, second.total>>]
    /\ UNCHANGED <<fsVars, invocationVars>>

RaceNext ==
    \/ DestRootFail
    \/ EnumerateFail
    \/ Enumerate
    \/ TransferFail
    \/ SourceGone
    \/ CopyFile
    \/ MoveRename
    \/ MoveCopy
    \/ MoveUnlink
    \/ MoveUnlinkFail
    \/ SyncReturn
    \/ SecondEarlyFail
    \/ SecondEnumerate
    \/ SecondFail
    \/ SecondCopy
    \/ SecondMove
    \/ SecondReturn

RaceSpec == RaceInit /\ [][RaceNext]_vars

(***************************************************************************)
(* Properties                                                              *)
(***************************************************************************)
Range(q) == {q[k] : k \in DOMAIN q}

(* The destination path of a file of the source as the pass found it.      *)
DestAtStartOf(p) == DestPath(p, srcAtStart[p].mtime)

(* The files of the source that were candidates / were skipped when the    *)
(* pass enumerated the source.                                             *)
CandidatesAtStart == {p \in DOMAIN srcAtStart : DestAtStartOf(p) \notin DOMAIN destAtStart}
SkippedAtStart == {p \in DOMAIN srcAtStart : DestAtStartOf(p) \in DOMAIN destAtStart}

Failures == {k \in DOMAIN log : log[k] # "ok"}
Successes == {k \in DOMAIN log : log[k] = "ok"}

Returned == outcome # <<>>
Enumerated == pc \in {"transfer", "unlink"} \/ (Returned /\ outcome[1])
Terminated == pc = "done"

\* C1: a pass that follows a pass which transferred every one of its
\* candidates, over the source and destination that pass left, finds zero
\* candidates and transfers nothing: it returns processed = 0 and total = 0
\* and leaves source and destination as they were.
C1_Idempotent ==
    (syncCalls > 0 /\ prevPass = "complete") =>
        /\ files_to_process = <<>>
        /\ total_new_files = 0
        /\ src = srcAtStart
        /\ dest = destAtStart
        /\ Returned => (outcome[2] = 0 /\ outcome[3] = 0)

C1_Witness ==
    /\ prevPass = "complete"
    /\ Returned /\ outcome[1]
    /\ \E p \in DOMAIN src :
          /\ DestPath(p, src[p].mtime) \in DOMAIN dest
          /\ dest[DestPath(p, src[p].mtime)] = src[p].data

\* C2: a source file whose destination path holds a file when the pass
\* enumerates the source is skipped: the destination file is not
\* overwritten, the source file stays and is never written, and it is
\* counted neither in total nor in processed.
C2_SkipExisting ==
    /\ \A p \in SkippedAtStart :
          /\ DestAtStartOf(p) \in DOMAIN dest
          /\ dest[DestAtStartOf(p)] = destAtStart[DestAtStartOf(p)]
          /\ p \in DOMAIN src /\ src[p] = srcAtStart[p]
          /\ p \notin written
          /\ p \notin Range(files_to_process)
    /\ Enumerated =>
          /\ total_new_files = Cardinality(DOMAIN srcAtStart) - Cardinality(SkippedAtStart)
          /\ processed_new_files <= total_new_files
          /\ Range(files_to_process) = CandidatesAtStart

C2_Witness ==
    /\ Returned /\ outcome[1]
    /\ SkippedAtStart # {}
    /\ outcome[2] >= 1

\* C3: when exactly one candidate of a pass fails, at whatever position and
\* for whatever reason (a bucket that cannot be created included), every
\* candidate is still attempted, the other N-1 are transferred, and the pass
\* returns success with processed = N-1 and total = N.
C3_FailureIsolation ==
    (Returned /\ Cardinality(Failures) = 1) =>
        /\ Len(log) = Len(files_to_process)
        /\ outcome[1]
        /\ outcome[2] = Len(files_to_process) - 1
        /\ outcome[3] = Len(files_to_process)
        /\ \A k \in Successes :
              /\ files_to_process[k] \in written
              /\ DestAtStartOf(files_to_process[k]) \in DOMAIN dest

C3_Witness ==
    /\ Returned
    /\ Len(files_to_process) = 2
    /\ log = <<"makedirs", "ok">>

\* C4: in move mode a source file is removed only after its content was
\* written to its destination path: a file that is gone from the source has
\* been written and its destination file exists, and a candidate whose
\* transfer failed before the write is still in the source.
C4_MoveAfterWrite ==
    args.move =>
        /\ \A p \in DOMAIN srcAtStart \ DOMAIN src :
              /\ p \in written
              /\ DestAtStartOf(p) \in DOMAIN dest
        /\ \A k \in DOMAIN log :
              log[k] \in {"makedirs", "transfer"}
                 => files_to_process[k] \in DOMAIN src

C4_Witness ==
    /\ args.move
    /\ Returned
    /\ DOMAIN srcAtStart \ DOMAIN src # {}
    /\ \E k \in DOMAIN log : log[k] = "transfer"

\* C5: in copy mode a pass leaves the source tree as it was: the same
\* files with the same contents and modification times, whatever transfers
\* succeed or fail.
C5_CopyKeepsSource ==
    ~args.move => src = srcAtStart

C5_Witness ==
    /\ ~args.move
    /\ Returned
    /\ Successes # {}
    /\ Failures # {}

\* C6: when DEST_DIR cannot be created, copy_or_move_files returns
\* (False, 0, 0, 0) without transferring or removing a file, and main then
\* calls the failure notification once (unless suppressed) and exits 1.
C6_DestRootFailure ==
    rootFailed =>
        /\ outcome = <<FALSE, 0, 0, 0>>
        /\ src = srcAtStart /\ dest = destAtStart /\ destDirs = {}
        /\ log = <<>> /\ written = {}
        /\ Terminated =>
              /\ exits = <<EXIT_FAIL>>
              /\ sound = "none"
              /\ Len(notifications) = (IF args.no_notify THEN 0 ELSE 1)
              /\ \A k \in DOMAIN notifications : notifications[k].summary = "Status: Failed"

C6_Witness ==
    /\ rootFailed
    /\ Terminated
    /\ ~args.no_notify
    /\ CandidatesAtStart # {}

\* C7: a run in which no poll ever gave main a mount path exits with code 0
\* and never invokes copy_or_move_files.
C7_NoMountExitsZero ==
    (Terminated /\ gopro_mount = "None") => (exits = <<EXIT_OK>> /\ syncCalls = 0)

\* C8: the exit code is 1 in every run that ends through an inaccessible
\* mount, a listing error or a failed Sync outcome, 0 in every run that ends
\* through a successful Sync outcome or the polling timeout, and never
\* anything else.
C8_ExitCodes ==
    Terminated =>
        /\ Len(exits) = 1
        /\ exits[1] \in {EXIT_OK, EXIT_FAIL}
        /\ Returned => exits[1] = (IF outcome[1] THEN EXIT_OK ELSE EXIT_FAIL)
        /\ (gopro_mount = "mount" /\ ~Returned) => exits[1] = EXIT_FAIL
        /\ endedVia \in {"inaccessible", "listing", "sync_failed"} => exits[1] = EXIT_FAIL
        /\ endedVia \in {"success", "timeout"} => exits[1] = EXIT_OK
        /\ (gopro_mount = "None" /\ ~(clock < timeout)) => exits[1] = EXIT_OK

C8_Witness ==
    /\ Terminated
    /\ Returned /\ outcome[1]
    /\ Failures # {}
    /\ exits = <<EXIT_OK>>

\* C9 as claimed: every run that main ends, through whichever of its exits,
\* has called send_desktop_notification exactly once (not at all under
\* --no-notify) and has produced exactly one exit code.
C9_OneNotificationEveryRun ==
    (Terminated /\ endedVia # "crash") =>
        /\ Len(notifications) = (IF args.no_notify THEN 0 ELSE 1)
        /\ Len(exits) = 1

\* C9 as amended: every run that ends after a mount was found (through a
\* Sync outcome, a listing error or an inaccessible mount) has called
\* send_desktop_notification exactly once (not at all under --no-notify); a
\* run that ends through the polling timeout has not called it; every run
\* that terminates has produced exactly one exit code.
C9_OneNotificationWhenDone ==
    Terminated =>
        /\ Len(exits) = 1
        /\ gopro_mount = "mount" =>
              Len(notifications) = (IF args.no_notify THEN 0 ELSE 1)
        /\ endedVia = "timeout" => notifications = <<>>

C9_Witness ==
    /\ Terminated
    /\ ~args.no_notify
    /\ endedVia = "listing"
    /\ Len(notifications) = 1

\* C10: when all files of the source have the same date, n of them are new,
\* the destination bucket holds m files, each the destination of a file of
\* the source, and no transfer fails, the pass returns processed = n and
\* total = n and the bucket ends with exactly n + m files.
SameDate == \A p, q \in DOMAIN srcAtStart : srcAtStart[p].mtime = srcAtStart[q].mtime

BucketOnlyHoldsSkipped ==
    \A dp \in DOMAIN destAtStart : \E p \in SkippedAtStart : DestAtStartOf(p) = dp

C10_CountsAndBucket ==
    (Returned /\ outcome[1] /\ Failures = {} /\ SameDate /\ BucketOnlyHoldsSkipped) =>
        /\ outcome[2] = Cardinality(CandidatesAtStart)
        /\ outcome[3] = Cardinality(CandidatesAtStart)
        /\ Cardinality(DOMAIN dest) =
              Cardinality(CandidatesAtStart) + Cardinality(DOMAIN destAtStart)

\* C11: a failure of the sound or of a notification never changes how the
\* run ends: in every run in which play_success_sound played nothing or
\* send_desktop_notification showed nothing, the exit code and the way the
\* run ends are those of the Sync result (0 and success, 1 and failure) or,
\* before the pass, 1 through the inaccessible mount or the listing error,
\* as in the runs whose sound and notification succeed.
FeedbackFailed ==
    \/ sound = "failed"
    \/ \E k \in DOMAIN notifications : ~notifications[k].shown

C11_FeedbackNeverChangesOutcome ==
    (Terminated /\ FeedbackFailed) =>
        /\ Returned =>
              /\ exits = <<IF outcome[1] THEN EXIT_OK ELSE EXIT_FAIL>>
              /\ endedVia = (IF outcome[1] THEN "success" ELSE "sync_failed")
              /\ lastPass = PassRecord(outcome)
        /\ ~Returned =>
              /\ exits = <<EXIT_FAIL>>
              /\ endedVia \in {"inaccessible", "listing"}

C11_Witness ==
    /\ Terminated
    /\ sound = "failed"
    /\ Len(notifications) = 1 /\ ~notifications[1].shown
    /\ Returned /\ outcome[2] >= 1
    /\ exits = <<EXIT_OK>>

\* C12: every file a pass transfers is at DEST_DIR/<MM-DD-YYYY>/<basename>,
\* the zero-padded month, day and year of its modification time (a file of
\* 5 July 2023 in the bucket 07-05-2023), and a pass adds no file to the
\* destination at any other path.
MonthDayYear(t) ==
    << Digit(t.month \div 10), Digit(t.month % 10), "-",
       Digit(t.day \div 10), Digit(t.day % 10), "-",
       Digit(t.year \div 1000), Digit((t.year \div 100) % 10),
       Digit((t.year \div 10) % 10), Digit(t.year % 10) >>

ExpectedDest(p) == <<MonthDayYear(srcAtStart[p].mtime), Basename(p)>>

C12_DateBucket ==
    /\ \A p \in written : ExpectedDest(p) \in DOMAIN dest
    /\ \A dp \in DOMAIN dest \ DOMAIN destAtStart :
          \E p \in written : dp = ExpectedDest(p)
    /\ \A p \in written :
          srcAtStart[p].mtime = [year |-> 2023, month |-> 7, day |-> 5] =>
             << <<"0", "7", "-", "0", "5", "-", "2", "0", "2", "3">>,
                Basename(p) >> \in DOMAIN dest
    /\ \A p \in written : ExpectedDest(p)[1] \in destDirs

C12_Witness ==
    /\ Returned /\ outcome[2] = 2
    /\ \E p \in written :
          /\ srcAtStart[p].mtime = [year |-> 2023, month |-> 7, day |-> 5]
          /\ dest[<< <<"0", "7", "-", "0", "5", "-", "2", "0", "2", "3">>,
                     Basename(p) >>] = srcAtStart[p].data
    /\ \E p \in written :
          srcAtStart[p].mtime = [year |-> 2024, month |-> 1, day |-> 3]

\* C13: a failure of a probe in an iteration of the loop never ends the
\* run: after it main is still polling, or the run ended through the
\* timeout.
C13_ProbeFailureKeepsPolling ==
    probeFault # "none" =>
        \/ pc = "loop"
        \/ Terminated /\ endedVia = "timeout"

\* C14: copy_or_move_files is called at most once in a run; once it was
\* called main never polls again, and the run ends only after the pass
\* returned, with the exit code of its outcome and, when the pass returned
\* success, after every candidate was attempted, also when the pass took
\* longer than the budget of the loop.
C14_TransferRunsToEnd ==
    /\ syncCalls <= 1
    /\ syncCalls = 1 => pc \in {"copy_or_move_files", "transfer", "unlink",
                                "report", "done"}
    /\ (syncCalls = 1 /\ Terminated) =>
          /\ Returned
          /\ endedVia \in {"success", "sync_failed"}
          /\ exits = <<IF outcome[1] THEN EXIT_OK ELSE EXIT_FAIL>>
          /\ outcome[1] => Len(attempts) = Len(files_to_process)

C14_Witness ==
    /\ Terminated
    /\ syncCalls = 1
    /\ ~(clock < timeout)
    /\ endedVia = "success"
    /\ Len(attempts) = 2

\* C15: when the path of the mount does not exist or cannot be read, the
\* run ends at once: one notification about the inaccessible mount (none
\* under --no-notify), exit code 1, no call of copy_or_move_files and no
\* further poll, though the budget of the loop has not elapsed.
C15_InaccessibleMount ==
    mountState \in {"missing", "unreadable"} =>
        /\ Terminated
        /\ endedVia = "inaccessible"
        /\ exits = <<EXIT_FAIL>>
        /\ syncCalls = 0 /\ ~Returned
        /\ clock < timeout
        /\ Len(notifications) = (IF args.no_notify THEN 0 ELSE 1)
        /\ \A k \in DOMAIN notifications :
              /\ notifications[k].summary = "Status: Failed"
              /\ notifications[k].body = "inaccessible"

C15_Witness ==
    /\ mountState = "unreadable"
    /\ Terminated
    /\ Len(notifications) = 1
    /\ clock < timeout

\* C16: the flag a pass returns is True iff the pass reached the loop over
\* the candidates, whatever number of them failed, all of them included;
\* it is False only after DEST_DIR could not be made or the walk raised, and
\* then the counts are 0 and no candidate was attempted.
C16_SuccessFlag ==
    /\ pc \in {"transfer", "unlink"} => ~(rootFailed \/ enumFailed)
    /\ Returned =>
          /\ outcome[1] <=> ~(rootFailed \/ enumFailed)
          /\ Len(attempts) > 0 => outcome[1]
          /\ ~outcome[1] =>
                /\ outcome = <<FALSE, 0, 0, 0>>
                /\ attempts = <<>> /\ log = <<>>

C16_Witness ==
    /\ Returned
    /\ Len(attempts) = 2
    /\ Successes = {}
    /\ outcome = <<TRUE, 0, 2, 0>>

\* C17: a pass attempts its candidates one by one in the order of the
\* enumeration, each at most once, a failed one never again; when the pass
\* has returned success every candidate was attempted exactly once.
C17_EachCandidateOnce ==
    /\ Len(attempts) <= Len(files_to_process)
    /\ \A k \in DOMAIN attempts : attempts[k] = files_to_process[k]
    /\ \A a, b \in DOMAIN attempts : a # b => attempts[a] # attempts[b]
    /\ pc = "transfer" => (Len(attempts) = i - 1 /\ Len(log) = Len(attempts))
    /\ (Returned /\ outcome[1]) => attempts = files_to_process

C17_Witness ==
    /\ Returned
    /\ Len(attempts) = 2
    /\ log[1] # "ok"
    /\ log[2] = "ok"

\* C18: every run of main terminates: an iteration of the loop that finds
\* no mount advances the clock by the poll interval at least, so the loop
\* ends once the budget has elapsed, and from the iteration that finds a
\* mount on main never tests the loop again.
C18_EveryRunTerminates ==
    /\ ~Terminated ~> Terminated
    /\ [][(pc = "loop" /\ pc' = "loop") => clock' >= clock + SLEEP]_vars
    /\ [][gopro_mount = "mount" => pc' # "loop"]_vars

C18_Witness ==
    /\ Terminated
    /\ endedVia = "timeout"
    /\ ~(clock < timeout)
    /\ probeFault = "caught"

\* C19: nothing excludes two invocations of copy_or_move_files over the
\* same source and destination from one another: each takes as candidates
\* the files whose destination was absent at its own walk and transfers
\* them without looking again, so a file both walks found new may be
\* transferred and counted by both; the sum of the two processed counts is
\* bounded by the number of new files plus the number of files both took, and
\* exceeds the number of new files in the interleaving of the witness.
NewAtStart == CandidatesAtStart

TakenByBoth == Range(files_to_process) \cap Range(second.files)

C19_NoMutualExclusion ==
    /\ Range(files_to_process) \subseteq NewAtStart
    /\ Range(second.files) \subseteq NewAtStart
    /\ processed_new_files + second.processed
          <= Cardinality(NewAtStart) + Cardinality(TakenByBoth)

C19_Witness ==
    /\ Returned /\ second.pc = "returned"
    /\ Cardinality(NewAtStart) = 1
    /\ TakenByBoth = NewAtStart
    /\ processed_new_files = 1 /\ second.processed = 1
    /\ outcome[2] + second.outcome[2] > Cardinality(NewAtStart)

\* C20, its last part, claimed for every source tree: when a pass has
\* returned success and no transfer of it failed, the content of every file
\* that was in the source when the pass began is at its source path or at
\* some destination path (in move mode no content is lost).
ContentKept(p) ==
    \/ p \in DOMAIN src /\ src[p].data = srcAtStart[p].data
    \/ \E dp \in DOMAIN dest : dest[dp] = srcAtStart[p].data

C20_NoDataLoss ==
    (Returned /\ outcome[1] /\ Failures = {}) =>
        \A p \in DOMAIN srcAtStart : ContentKept(p)

(* The candidates whose transfer completed without error: attempt k of the *)
(* pass is the attempt of files_to_process[k].                             *)
ProcessedFiles == {files_to_process[k] : k \in Successes}

(* os.path.getsize of the destination path of a candidate, as the          *)
(* destination is now.                                                     *)
DestSizeOf(p) ==
    IF DestAtStartOf(p) \in DOMAIN dest THEN SizeOf(dest[DestAtStartOf(p)]) ELSE 0

RECURSIVE SumDestSizes(_)
SumDestSizes(S) ==
    IF S = {} THEN 0
    ELSE LET p == CHOOSE x \in S : TRUE
         IN  DestSizeOf(p) + SumDestSizes(S \ {p})

\* C21: in every state of the transfer loop and in the returned outcome,
\* 0 <= processed <= candidates attempted so far <= total, total is the
\* number of candidates the enumeration found, processed is the number of
\* candidates whose transfer completed without error, and the byte total is
\* the sum of the sizes of the destination files of exactly those candidates.
C21_Accounting ==
    Enumerated =>
        /\ 0 <= processed_new_files
        /\ processed_new_files <= Len(attempts)
        /\ Len(attempts) <= total_new_files
        /\ total_new_files = Cardinality(CandidatesAtStart)
        /\ total_new_files = Len(files_to_process)
        /\ processed_new_files = Cardinality(Successes)
        /\ total_size_processed = SumDestSizes(ProcessedFiles)
        /\ Returned =>
              outcome = <<TRUE, processed_new_files, total_new_files,
                          total_size_processed>>

====
